---- MODULE Spec2Model ----
(***************************************************************************)
(* Model of the MQTT add-on of my-addon/run.py: the message handler        *)
(* on_message, the control responder check_and_respond_control, the        *)
(* registration check is_device_registered and the discovery cycle         *)
(* clear_and_rediscover that on_message starts on a daemon thread.         *)
(* Further down, the device aggregator of my-addon/3drp_show.py: the       *)
(* handler devices_view of GET /devices.                                   *)
(*                                                                         *)
(* A topic is kept as the list of its '/'-separated segments (what         *)
(* topic.split('/') returns); outbound topics are built as strings the way *)
(* the f-strings build them.  A JSON value is a record [t, v, kv]: t is    *)
(* the Python type json.loads yields, v the text of a scalar, kv the       *)
(* ordered <<key, value>> pairs of a dict.                                 *)
(***************************************************************************)
EXTENDS Integers, Sequences, FiniteSets, TLC

VARIABLES loop, handled, cur, published, threads, view

vars == <<loop, handled, cur, published, threads, view>>

(***************************************************************************)
(* Bounds.                                                                 *)
(***************************************************************************)
\* number of inbound messages delivered to on_message
MaxMsgs == 1
\* number of discovery threads started
MaxCycles == 1

(***************************************************************************)
(* JSON values as json.loads returns them.                                 *)
(***************************************************************************)
JNull == [t |-> "NoneType", v |-> "None", kv |-> <<>>]
JStr(s) == [t |-> "str", v |-> s, kv |-> <<>>]
\* a JSON integer, v is its decimal text
JInt(s) == [t |-> "int", v |-> s, kv |-> <<>>]
JList(s) == [t |-> "list", v |-> s, kv |-> <<>>]
JObj(pairs) == [t |-> "dict", v |-> "", kv |-> pairs]

IsDict(j) == j.t = "dict"

IsNone(j) == j.t = "NoneType"

\* the keys of a dict in insertion order: dict.keys()
Keys(j) == [i \in 1..Len(j.kv) |-> j.kv[i][1]]

HasKey(j, k) == \E i \in 1..Len(j.kv) : j.kv[i][1] = k

\* dict.get(k, default)
DictGet(j, k, default) ==
    IF HasKey(j, k)
    THEN j.kv[CHOOSE i \in 1..Len(j.kv) : j.kv[i][1] = k][2]
    ELSE default

\* a truth test that takes every number for false
Truthy_NoInts(j) ==
    CASE j.t = "NoneType" -> FALSE
      [] j.t = "str" -> j.v # ""
      [] j.t = "int" -> FALSE
      [] j.t = "list" -> j.v # "[]"
      [] j.t = "dict" -> j.kv # <<>>

\* Python truth value of a JSON value (what `not x` and `x or {}` test)
Truthy(j) ==
    CASE j.t = "NoneType" -> FALSE
      [] j.t = "str" -> j.v # ""
      [] j.t = "int" -> j.v # "0"
      [] j.t = "list" -> j.v # "[]"
      [] j.t = "dict" -> j.kv # <<>>

\* str(x) of a scalar
Str(j) == j.v

(***************************************************************************)
(* Outbound payloads: a text payload, or the JSON text of a dict made by   *)
(* json.dumps.                                                             *)
(***************************************************************************)
Text(s) == [text |-> s, json |-> <<>>]

JsonDumps(x) == [text |-> "", json |-> <<x>>]

IsEmptyPayload(p) == p.text = "" /\ p.json = <<>>

Publish(topic, payload, retain, by) ==
    [topic |-> topic, payload |-> payload, retain |-> retain, by |-> by]

(***************************************************************************)
(* The unit table and the two builders of a discovery definition.          *)
(***************************************************************************)
unit_conditions ==
    [k \in {"ct", "t", "ch", "h", "p1", "p25", "p10", "v", "c", "ec", "rset", "rpm"} |->
        CASE k \in {"ct", "t"} -> "°C"
          [] k \in {"ch", "h"} -> "%"
          [] k \in {"p1", "p25", "p10"} -> "µg/m³"
          [] k \in {"v", "c", "ec"} -> "ppm"
          [] k \in {"rset", "rpm"} -> "rpm"]

\* the "device" block both builders put in a definition
DeviceBlock(device_name, device_mac) ==
    [identifiers |-> device_name \o "_" \o device_mac,
     name |-> device_name \o "_" \o device_mac,
     model |-> device_name,
     manufacturer |-> device_name,
     sw_version |-> "Add-on unknown"]

\* the unit is added only when the sensor name is in the table
WithUnit(config, sensor_name) ==
    IF sensor_name \in DOMAIN unit_conditions
    THEN ("unit_of_measurement" :> unit_conditions[sensor_name]) @@ config
    ELSE config

generate_mqtt_discovery_config(device_name, device_mac, sensor_type, sensor_name) ==
    WithUnit(
        [name |-> sensor_name,
         state_topic |-> device_name \o "/" \o device_mac \o "/data",
         availability_topic |-> device_name \o "/" \o device_mac \o "/status",
         payload_available |-> "online",
         payload_not_available |-> "offline",
         value_template |-> "{{ value_json." \o sensor_type \o "." \o sensor_name \o " }}",
         unique_id |-> device_name \o "_" \o device_mac \o "_" \o sensor_name,
         state_class |-> "measurement",
         force_update |-> TRUE,
         device |-> DeviceBlock(device_name, device_mac)],
        sensor_name)

generate_mqtt_discovery_textconfig(device_name, device_mac, sensor_type, sensor_name) ==
    WithUnit(
        [name |-> sensor_name,
         state_topic |-> device_name \o "/" \o device_mac \o "/data",
         availability_topic |-> device_name \o "/" \o device_mac \o "/status",
         payload_available |-> "online",
         payload_not_available |-> "offline",
         value_template |-> "{{ value_json." \o sensor_type \o "." \o sensor_name \o " }}",
         unique_id |-> device_name \o "_" \o device_mac \o "_" \o sensor_name,
         device |-> DeviceBlock(device_name, device_mac)],
        sensor_name)

\* the discovery-config topic of one sensor of one device
DiscoveryTopic(device_name, device_mac, sensor_name) ==
    "homeassistant/sensor/" \o device_name \o "_" \o device_mac \o "_" \o sensor_name \o "/config"

ControlTopic(device_name, device_mac) == device_name \o "/" \o device_mac \o "/control"

\* the beacon sent to a topic of another name than the one the definitions carry
StatusTopic_Online(device_name, device_mac) == device_name \o "/" \o device_mac \o "/online"

StatusTopic(device_name, device_mac) == device_name \o "/" \o device_mac \o "/status"

(***************************************************************************)
(* is_device_registered.  resp is what requests.get does for the query:    *)
(* it raises (resp.raised), or returns a status and a body whose .json()   *)
(* raises (body.kind = "malformed") or returns body.json.                  *)
(***************************************************************************)
EntityId(device_name, device_mac) ==
    "sensor." \o device_name \o "_" \o device_mac \o "_FormatVersion"

\* the comparison inverted
is_device_registered_Inverted(device_name, device_mac, format_version, resp) ==
    IF resp.raised THEN FALSE
    ELSE IF resp.status_code # 200 THEN FALSE
    ELSE IF resp.body.kind # "json" THEN FALSE
    ELSE IF ~IsDict(resp.body.json) THEN FALSE
    ELSE Str(DictGet(resp.body.json, "state", JNull)) # Str(format_version)

\* the status check left out
is_device_registered_AnyStatus(device_name, device_mac, format_version, resp) ==
    IF resp.raised THEN FALSE
    ELSE IF resp.body.kind # "json" THEN FALSE
    ELSE IF ~IsDict(resp.body.json) THEN FALSE
    ELSE Str(DictGet(resp.body.json, "state", JNull)) = Str(format_version)

is_device_registered(device_name, device_mac, format_version, resp) ==
    IF resp.raised THEN FALSE
    ELSE IF resp.status_code # 200 THEN FALSE
    ELSE IF resp.body.kind # "json" THEN FALSE
    ELSE IF ~IsDict(resp.body.json) THEN FALSE
    ELSE Str(DictGet(resp.body.json, "state", JNull)) = Str(format_version)

(***************************************************************************)
(* check_and_respond_control: what it publishes, or the exception it       *)
(* raises before publishing.  by is the number of the message.             *)
(***************************************************************************)
\* every object that has a key counts as marked
has_required_payload_AnyKey(message_json) == message_json.kv # <<>>

has_required_payload(message_json) ==
    \/ ~IsNone(DictGet(message_json, "Heartbeat", JNull))
    \/ ~IsNone(DictGet(message_json, "MODEL", JNull))

\* the identity taken from the first two segments of any topic that has them
check_and_respond_control_TwoSegments(topic, message_json, by) ==
    IF Len(topic) < 2 THEN [raised |-> "", pubs |-> <<>>]
    ELSE IF ~IsDict(message_json) THEN [raised |-> "AttributeError", pubs |-> <<>>]
    ELSE IF has_required_payload(message_json)
         THEN [raised |-> "",
               pubs |-> <<Publish(ControlTopic(topic[1], topic[2]),
                                  JsonDumps([Update |-> "1"]), FALSE, by)>>]
         ELSE [raised |-> "", pubs |-> <<>>]

check_and_respond_control(topic, message_json, by) ==
    IF Len(topic) < 3 THEN [raised |-> "", pubs |-> <<>>]
    ELSE IF Len(topic) # 3 THEN [raised |-> "ValueError", pubs |-> <<>>]
    ELSE IF ~IsDict(message_json) THEN [raised |-> "AttributeError", pubs |-> <<>>]
    ELSE IF has_required_payload(message_json)
         THEN [raised |-> "",
               pubs |-> <<Publish(ControlTopic(topic[1], topic[2]),
                                  JsonDumps([Update |-> "1"]), FALSE, by)>>]
         ELSE [raised |-> "", pubs |-> <<>>]

(***************************************************************************)
(* on_message, up to the point where it returns, swallows an exception or  *)
(* lets one escape.  msg.payload.decode() is outside the try block; the    *)
(* two except clauses only log.  The result says what the call did: what   *)
(* it published, whether it queried the platform, and whether it started a *)
(* discovery thread (with the arguments the thread gets).                  *)
(***************************************************************************)
Outcome(escaped, caught, pubs, queried, verdict, dispatch) ==
    [escaped |-> escaped, caught |-> caught, pubs |-> pubs, queried |-> queried,
     verdict |-> verdict, dispatch |-> dispatch]

EmptyDict == JObj(<<>>)

\* message_json.get(key, {}) or {}
Section(message_json, key) ==
    LET x == DictGet(message_json, key, EmptyDict)
    IN IF Truthy(x) THEN x ELSE EmptyDict

\* msg.payload.decode(): the text, or UnicodeDecodeError
decode(payload) ==
    IF payload.kind = "undecodable"
    THEN [raised |-> "UnicodeDecodeError", text |-> payload]
    ELSE [raised |-> "", text |-> payload]

\* a parser that repairs a truncated text
json_loads_Lenient(text) == [raised |-> "", value |-> text.json]

\* json.loads(payload): the value, or JSONDecodeError
json_loads(text) ==
    IF text.kind = "json"
    THEN [raised |-> "", value |-> text.json]
    ELSE [raised |-> "JSONDecodeError", value |-> JNull]

\* `and` in place of `or`
MissingIdentity_Both(device_name, device_mac) == device_name = "" /\ device_mac = ""

\* not device_name or not device_mac
MissingIdentity(device_name, device_mac) == device_name = "" \/ device_mac = ""

on_message(msg, resp, by) ==
    IF decode(msg.payload).raised # ""
    THEN Outcome(decode(msg.payload).raised, "", <<>>, FALSE, "none", FALSE)
    ELSE IF json_loads(decode(msg.payload).text).raised # ""
    THEN Outcome("", json_loads(decode(msg.payload).text).raised, <<>>, FALSE, "none", FALSE)
    ELSE
    LET message_json == json_loads(decode(msg.payload).text).value
        c == check_and_respond_control(msg.topic, message_json, by)
    IN  IF c.raised # ""
        THEN Outcome("", c.raised, c.pubs, FALSE, "none", FALSE)
        ELSE IF Len(msg.topic) < 3
        THEN Outcome("", "", c.pubs, FALSE, "none", FALSE)
        ELSE
        LET device_name == msg.topic[1]
            device_mac == msg.topic[2]
            textdata == Section(message_json, "textdata")
        IN  IF ~IsDict(textdata)
            THEN Outcome("", "AttributeError", c.pubs, FALSE, "none", FALSE)
            ELSE
            LET format_version == DictGet(textdata, "FormatVersion", JNull)
            IN  IF MissingIdentity(device_name, device_mac)
                THEN Outcome("", "", c.pubs, FALSE, "none", FALSE)
                ELSE IF ~Truthy(format_version)
                THEN Outcome("", "", c.pubs, FALSE, "none", FALSE)
                ELSE IF is_device_registered(device_name, device_mac, format_version, resp)
                THEN Outcome("", "", c.pubs, TRUE, "current", FALSE)
                ELSE Outcome("", "", c.pubs, TRUE, "stale", TRUE)

(***************************************************************************)
(* Inputs: inbound topics and payloads, and the platform's answers.        *)
(***************************************************************************)
Topics ==
    { <<"printerA", "AA11", "data">>,
      \* a device name with an underscore in it
      <<"printer_B", "BB22", "data">>,
      <<"printerA", "AA11">>,
      <<"printerA", "AA11", "data", "x">>,
      <<"", "AA11", "data">>,
      <<"printerA", "", "data">> }

FV(x) == <<"FormatVersion", x>>

UpdateCommand == JObj(<< <<"Update", JStr("1")>> >>)

Objects ==
    { \* Scenario A and variants
      JObj(<< <<"data", JObj(<< <<"ink", JInt("5")>> >>)>>,
              <<"textdata", JObj(<< FV(JStr("3")) >>)>> >>),
      JObj(<< <<"Heartbeat", JInt("1")>>,
              <<"textdata", JObj(<< FV(JInt("3")) >>)>> >>),
      \* the same metric name in both sections
      JObj(<< <<"data", JObj(<< FV(JInt("3")) >>)>>,
              <<"textdata", JObj(<< FV(JStr("3")) >>)>> >>),
      \* a metric in the legacy section only
      JObj(<< <<"data1", JObj(<< <<"old", JInt("1")>> >>)>>,
              <<"textdata", JObj(<< FV(JStr("3")) >>)>> >>),
      \* sections of the wrong shape
      JObj(<< <<"data", JInt("5")>>,
              <<"textdata", JObj(<< FV(JStr("3")) >>)>> >>),
      JObj(<< <<"MODEL", JStr("ZS2")>>, <<"textdata", JStr("x")>> >>),
      \* no fingerprint, or an empty one
      JObj(<< <<"data", JObj(<< <<"ink", JInt("5")>> >>)>> >>),
      JObj(<< <<"data", JObj(<< <<"ink", JInt("5")>> >>)>>, <<"textdata", JNull>> >>),
      JObj(<< <<"Heartbeat", JInt("1")>>, <<"textdata", JObj(<< FV(JStr("")) >>)>> >>),
      JObj(<< <<"textdata", JObj(<< FV(JInt("0")) >>)>> >>),
      \* liveness markers
      JObj(<< <<"Heartbeat", JInt("1")>> >>),
      JObj(<< <<"MODEL", JStr("ZS2")>> >>),
      JObj(<< <<"Heartbeat", JNull>> >>),
      JObj(<< <<"MODEL", JInt("0")>> >>),
      \* the add-on's own control command
      UpdateCommand }

\* the object whose JSON text the broken payloads below are made from
Marked ==
    JObj(<< <<"Heartbeat", JInt("1")>>,
            <<"data", JObj(<< <<"ink", JInt("5")>> >>)>>,
            <<"textdata", JObj(<< FV(JStr("3")) >>)>> >>)

\* kind "undecodable": bytes that are not UTF-8 (the text of Marked with a byte 0xff in
\* a value); kind "malformed": text that is not JSON (the text of Marked cut before
\* its last brace); kind "json": the text of the value in field json
Payloads ==
    { [kind |-> "undecodable", json |-> Marked],
      [kind |-> "malformed", json |-> Marked],
      [kind |-> "json", json |-> JList("[1]")],
      [kind |-> "json", json |-> JNull] }
    \cup { [kind |-> "json", json |-> o] : o \in Objects }

\* what the default subscription '+/+/control' delivers
ControlMessages ==
    [topic : {<<"printerA", "AA11", "control">>},
     payload : {[kind |-> "json", json |-> UpdateCommand],
                [kind |-> "json", json |-> JObj(<< <<"Heartbeat", JInt("1")>> >>)]}]

Messages == [topic : Topics, payload : Payloads] \cup ControlMessages

Body(j) == [kind |-> "json", json |-> j]

NoResponse == [raised |-> TRUE, status_code |-> 0, body |-> Body(JNull)]

Responses ==
    { \* timeout or connection error
      NoResponse,
      \* no such entity
      [raised |-> FALSE, status_code |-> 404, body |-> Body(JObj(<< <<"message", JStr("Entity not found.")>> >>))],
      \* the entity, with its state
      [raised |-> FALSE, status_code |-> 200, body |-> Body(JObj(<< <<"state", JStr("3")>> >>))],
      [raised |-> FALSE, status_code |-> 200, body |-> Body(JObj(<< <<"state", JStr("2")>> >>))],
      \* a body that is not the JSON of an object
      [raised |-> FALSE, status_code |-> 200, body |-> [kind |-> "malformed", json |-> JNull]],
      \* a server error whose body happens to carry the state
      [raised |-> FALSE, status_code |-> 500, body |-> Body(JObj(<< <<"state", JStr("3")>> >>))] }

(***************************************************************************)
(* The device aggregator of my-addon/3drp_show.py: the handler             *)
(* devices_view of GET /devices and the functions it calls.  A Python str  *)
(* that the code takes apart (an entity id, a request argument) is kept as *)
(* the sequence of its characters, so that strip, split, startswith,       *)
(* endswith, slicing and comparison are computed as Python computes them.  *)
(***************************************************************************)
MinOf(S) == CHOOSE x \in S : \A y \in S : x <= y

MaxOf(S) == CHOOSE x \in S : \A y \in S : x >= y

\* str.startswith(p), str.endswith(p), p in s
StartsWith(s, p) == Len(p) <= Len(s) /\ SubSeq(s, 1, Len(p)) = p

EndsWith(s, p) == Len(p) <= Len(s) /\ SubSeq(s, Len(s) - Len(p) + 1, Len(s)) = p

Contains(s, p) == \E i \in 0..(Len(s) - Len(p)) : SubSeq(s, i + 1, i + Len(p)) = p

\* str.lower(), on the letters that the inputs below use in upper case
LowerChar(c) == CASE c = "A" -> "a" [] c = "Z" -> "z" [] OTHER -> c

Lower(s) == [i \in 1..Len(s) |-> LowerChar(s[i])]

\* str.strip(): leading and trailing whitespace removed
Strip(s) ==
    LET I == {i \in 1..Len(s) : s[i] # " "}
    IN  IF I = {} THEN <<>> ELSE SubSeq(s, MinOf(I), MaxOf(I))

\* the underscores left at the end are kept
RStripUnderscores_Kept(s) == s

\* str.rstrip("_")
RStripUnderscores(s) ==
    LET I == {i \in 1..Len(s) : s[i] # "_"}
    IN  IF I = {} THEN <<>> ELSE SubSeq(s, 1, MaxOf(I))

\* str.split(sep): the pieces between the separators, empty pieces included
RECURSIVE Split(_, _)
Split(s, sep) ==
    LET I == {i \in 1..Len(s) : s[i] = sep}
    IN  IF I = {} THEN <<s>>
        ELSE <<SubSeq(s, 1, MinOf(I) - 1)>> \o Split(SubSeq(s, MinOf(I) + 1, Len(s)), sep)

\* s[:-n] for n > 0
DropLast(s, n) == IF n >= Len(s) THEN <<>> ELSE SubSeq(s, 1, Len(s) - n)

\* lst[:n] for any integer n
Head_n(lst, n) ==
    IF n >= Len(lst) THEN lst
    ELSE IF n >= 0 THEN SubSeq(lst, 1, n)
    ELSE IF Len(lst) + n > 0 THEN SubSeq(lst, 1, Len(lst) + n)
    ELSE <<>>

\* the code points of the characters, by which Python orders strings
Ord(c) ==
    CASE c = " " -> 32 [] c = "," -> 44 [] c = "-" -> 45 [] c = "." -> 46
      [] c = "0" -> 48 [] c = "1" -> 49 [] c = "2" -> 50 [] c = "5" -> 53
      [] c = "A" -> 65 [] c = "Z" -> 90 [] c = "_" -> 95
      [] c = "a" -> 97 [] c = "b" -> 98 [] c = "c" -> 99 [] c = "e" -> 101
      [] c = "g" -> 103 [] c = "h" -> 104 [] c = "i" -> 105 [] c = "l" -> 108
      [] c = "n" -> 110 [] c = "o" -> 111 [] c = "p" -> 112 [] c = "r" -> 114
      [] c = "s" -> 115 [] c = "t" -> 116 [] c = "x" -> 120 [] c = "z" -> 122

\* a < b on str
StrLess(a, b) ==
    \E i \in 1..Len(b) :
        /\ i <= Len(a) + 1
        /\ SubSeq(a, 1, i - 1) = SubSeq(b, 1, i - 1)
        /\ (i = Len(a) + 1 \/ Ord(a[i]) < Ord(b[i]))

\* None, and a str that is there
None == [some |-> FALSE, chars |-> <<>>]

Some(s) == [some |-> TRUE, chars |-> s]

\* not x, for x a str or None
Not(x) == ~x.some \/ x.chars = <<>>

\* request.args.get(key, default): the first value of the key
ArgsGet(args, key, default) ==
    LET I == {i \in 1..Len(args) : args[i][1] = key}
    IN  IF I = {} THEN default ELSE args[MinOf(I)][2]

\* request.args.getlist(key): every value of the key, in order
ArgsGetList(args, key) ==
    LET hits == SelectSeq(args, LAMBDA a : a[1] = key)
    IN  [i \in 1..Len(hits) |-> hits[i][2]]

DEFAULT_QUERY == <<>>

DEFAULT_PREFIX == <<"s", "e", "n", "s", "o", "r", ".", "z", "p", "2", "_">>

DEFAULT_SUFFIX == <<"_", "p", "2", "5">>

DEFAULT_LIMIT == 500

\* [x.strip() for x in s.split(",") if x.strip()]
StrippedPieces(s) ==
    LET pieces == Split(s, ",")
        kept == SelectSeq(pieces, LAMBDA x : Strip(x) # <<>>)
    IN  [i \in 1..Len(kept) |-> Strip(kept[i])]

RECURSIVE ExtendAll(_)
ExtendAll(suffix_params) ==
    IF suffix_params = <<>> THEN <<>>
    ELSE StrippedPieces(Head(suffix_params)) \o ExtendAll(Tail(suffix_params))

_parse_suffixes_from_request(args) ==
    LET suffix_params == ArgsGetList(args, "suffix")
    IN  IF suffix_params # <<>>
        THEN ExtendAll(suffix_params)
        ELSE StrippedPieces(DEFAULT_SUFFIX)

\* the scan of the candidates from position k on
RECURSIVE MatchFrom(_, _, _)
MatchFrom(entity_id, suffixes, k) ==
    IF k > Len(suffixes) THEN [matched_suffix |-> None, trailing |-> None]
    ELSE LET s == suffixes[k]
         IN  IF s = <<>> THEN MatchFrom(entity_id, suffixes, k + 1)
             ELSE IF EndsWith(entity_id, <<"_">> \o s)
             THEN [matched_suffix |-> Some(s), trailing |-> Some(<<"_">> \o s)]
             ELSE IF EndsWith(entity_id, s)
             THEN [matched_suffix |-> Some(s), trailing |-> Some(s)]
             ELSE MatchFrom(entity_id, suffixes, k + 1)

\* the longest candidate at the end of the id, wherever it is in the list
_match_suffix_Longest(entity_id, suffixes) ==
    LET M == {k \in 1..Len(suffixes) : suffixes[k] # <<>> /\ EndsWith(entity_id, suffixes[k])}
        k == CHOOSE x \in M : \A y \in M : Len(suffixes[y]) <= Len(suffixes[x])
    IN  IF M = {} THEN [matched_suffix |-> None, trailing |-> None]
        ELSE IF EndsWith(entity_id, <<"_">> \o suffixes[k])
        THEN [matched_suffix |-> Some(suffixes[k]), trailing |-> Some(<<"_">> \o suffixes[k])]
        ELSE [matched_suffix |-> Some(suffixes[k]), trailing |-> Some(suffixes[k])]

_match_suffix(entity_id, suffixes) ==
    IF suffixes = <<>> THEN [matched_suffix |-> None, trailing |-> None]
    ELSE MatchFrom(entity_id, suffixes, 1)

\* int(x) of a request argument: optional whitespace and sign around decimal digits,
\* ValueError for anything else
DigitValue(c) == CASE c = "0" -> 0 [] c = "1" -> 1 [] c = "2" -> 2 [] c = "5" -> 5

IsDigit(c) == c \in {"0", "1", "2", "5"}

RECURSIVE DecimalValue(_)
DecimalValue(digits) ==
    IF digits = <<>> THEN 0
    ELSE 10 * DecimalValue(SubSeq(digits, 1, Len(digits) - 1)) + DigitValue(digits[Len(digits)])

int(x) ==
    LET t == Strip(x)
        negative == t # <<>> /\ t[1] = "-"
        digits == IF t # <<>> /\ t[1] \in {"-", "+"} THEN Tail(t) ELSE t
    IN  IF digits = <<>> \/ \E i \in 1..Len(digits) : ~IsDigit(digits[i])
        THEN [raised |-> "ValueError", value |-> 0]
        ELSE [raised |-> "", value |-> IF negative THEN 0 - DecimalValue(digits)
                                                    ELSE DecimalValue(digits)]

\* e.response.text[:300]
DetailLimit == 300

(***************************************************************************)
(* _get_all_states.  The upstream is what the platform does with           *)
(* GET /states: no connection, no answer within the timeout, or a response *)
(* with a status, a text and, when the text is JSON, its value.  The       *)
(* Authorization header is "Bearer " followed by the token, never empty,   *)
(* so the RuntimeError of the first line is never raised.                  *)
(***************************************************************************)
_get_all_states(upstream) ==
    IF upstream.kind = "unreachable"
    THEN [raised |-> "ConnectionError", states |-> <<>>]
    ELSE IF upstream.kind = "timeout"
    THEN [raised |-> "Timeout", states |-> <<>>]
    ELSE IF upstream.status_code >= 400 /\ upstream.status_code < 600
    THEN [raised |-> "HTTPError", states |-> <<>>]
    ELSE IF upstream.json = "none"
    THEN [raised |-> "JSONDecodeError", states |-> <<>>]
    ELSE [raised |-> "", states |-> upstream.states]

\* iterating a body that is a JSON object yields its keys, and str has no .get
IterationRaises(upstream) == upstream.json = "object" /\ upstream.states # <<>>

\* eid.split(".", 1)[1] if "." in eid else eid
ObjectId(eid) ==
    LET I == {i \in 1..Len(eid) : eid[i] = "."}
    IN  IF I = {} THEN eid ELSE SubSeq(eid, MinOf(I) + 1, Len(eid))

\* one pass of the loop body for the entity s: whether it is kept, and under
\* which label and metric key
Step(s, query, prefix, suffixes) ==
    LET eid == IF Not(s.entity_id) THEN <<>> ELSE s.entity_id.chars
        name == IF Not(s.friendly_name) THEN <<>> ELSE s.friendly_name.chars
        q == Lower(query)
        m == _match_suffix(eid, suffixes)
        base == ObjectId(eid)
        base_wo_suffix == IF Not(m.trailing) THEN base
                          ELSE DropLast(base, Len(m.trailing.chars))
        device_label == RStripUnderscores(base_wo_suffix)
        skipped(why) == [eid |-> eid, verdict |-> why, matched_suffix |-> None,
                         trailing |-> None, device_label |-> <<>>,
                         value |-> s.state, last_updated |-> s.last_updated]
    IN  IF prefix # <<>> /\ ~StartsWith(eid, prefix) THEN skipped("prefix")
        ELSE IF query # <<>> /\ ~Contains(Lower(eid), q) /\ ~Contains(Lower(name), q)
        THEN skipped("query")
        ELSE IF Not(m.matched_suffix) THEN skipped("suffix")
        ELSE [eid |-> eid, verdict |-> "kept", matched_suffix |-> m.matched_suffix,
              trailing |-> m.trailing, device_label |-> device_label,
              value |-> s.state, last_updated |-> s.last_updated]

\* metrics.setdefault(key, entry): a key that is there keeps its entry
SetItem_KeepFirst(metrics, key, entry) ==
    LET I == {i \in 1..Len(metrics) : metrics[i].key = key}
    IN  IF I = {} THEN Append(metrics, [key |-> key] @@ entry)
        ELSE metrics

\* metrics[key] = entry on a dict kept as its items in insertion order
SetItem(metrics, key, entry) ==
    LET I == {i \in 1..Len(metrics) : metrics[i].key = key}
    IN  IF I = {} THEN Append(metrics, [key |-> key] @@ entry)
        ELSE [metrics EXCEPT ![MinOf(I)] = [key |-> key] @@ entry]

\* a new record for every entity, whether its label is in the map or not
Collected_AlwaysNew(devices_map, device_label, key, entry) ==
    Append(devices_map, [device_id |-> device_label, metrics |-> SetItem(<<>>, key, entry)])

\* devices_map.setdefault(device_label, {...}) followed by row["metrics"][key] = entry
Collected(devices_map, device_label, key, entry) ==
    LET I == {i \in 1..Len(devices_map) : devices_map[i].device_id = device_label}
    IN  IF I = {}
        THEN Append(devices_map, [device_id |-> device_label,
                                   metrics |-> SetItem(<<>>, key, entry)])
        ELSE [devices_map EXCEPT ![MinOf(I)].metrics = SetItem(@, key, entry)]

\* the loop over the snapshot: devices_map after the steps of trace
RECURSIVE DevicesMap(_)
DevicesMap(trace) ==
    IF trace = <<>> THEN <<>>
    ELSE LET before == DevicesMap(SubSeq(trace, 1, Len(trace) - 1))
             t == trace[Len(trace)]
         IN  IF t.verdict = "kept"
             THEN Collected(before, t.device_label, t.matched_suffix.chars,
                            [value |-> t.value, last_updated |-> t.last_updated])
             ELSE before

\* the sort left out: the records stay in the order of first appearance
Sorted_AsCollected(devices_list) == devices_list

\* devices_list.sort(key=lambda d: d["device_id"])
Sorted(devices_list) ==
    SortSeq(devices_list, LAMBDA a, b : StrLess(a.device_id, b.device_id))

\* the responses of the handler
Result(kind, status, error, detail, requested, devices) ==
    [kind |-> kind, status |-> status, error |-> error, detail |-> detail,
     requested |-> requested, devices |-> devices]

NoRequested == [prefix |-> <<>>, suffixes |-> <<>>]

devices_view(args, upstream) ==
    LET query == Strip(ArgsGet(args, "query", DEFAULT_QUERY))
        prefix == Strip(ArgsGet(args, "prefix", DEFAULT_PREFIX))
        given == {i \in 1..Len(args) : args[i][1] = "limit"}
        limit == IF given = {} THEN [raised |-> "", value |-> DEFAULT_LIMIT]
                 ELSE int(ArgsGet(args, "limit", <<>>))
        suffixes == _parse_suffixes_from_request(args)
        fetched == _get_all_states(upstream)
        trace == IF IterationRaises(upstream) THEN <<>>
                 ELSE [i \in 1..Len(fetched.states) |->
                          Step(fetched.states[i], query, prefix, suffixes)]
        devices_list == Sorted(DevicesMap(trace))
        truncated == IF limit.value # 0 /\ Len(devices_list) > limit.value
                     THEN Head_n(devices_list, limit.value)
                     ELSE devices_list
        locals == [args |-> args, upstream |-> upstream, query |-> query, prefix |-> prefix,
                   limit |-> limit.value, suffixes |-> suffixes]
    IN  IF limit.raised # ""
        THEN locals @@ [escaped |-> limit.raised, trace |-> <<>>,
                        result |-> Result("unhandled", 500, "", <<>>, NoRequested, <<>>)]
        ELSE IF fetched.raised = "HTTPError"
        THEN locals @@ [escaped |-> "", trace |-> <<>>,
                        result |-> Result("gateway-error", 502,
                                          "HTTP " \o ToString(upstream.status_code),
                                          Head_n(upstream.text, DetailLimit),
                                          NoRequested, <<>>)]
        ELSE IF fetched.raised # ""
        THEN locals @@ [escaped |-> "", trace |-> <<>>,
                        result |-> Result("error", 500, fetched.raised, <<>>,
                                          NoRequested, <<>>)]
        ELSE IF IterationRaises(upstream)
        THEN locals @@ [escaped |-> "", trace |-> <<>>,
                        result |-> Result("error", 500, "AttributeError", <<>>,
                                          NoRequested, <<>>)]
        ELSE locals @@ [escaped |-> "", trace |-> trace,
                        result |-> Result("devices", 200, "", <<>>,
                                          [prefix |-> prefix, suffixes |-> suffixes],
                                          truncated)]

(***************************************************************************)
(* Inputs of the aggregator: the entities of the platform, the snapshots   *)
(* GET /states can return, its failures, and the requests.                 *)
(***************************************************************************)
\* entities of one snapshot
MaxEntities == 3

Entity(entity_id, state, last_updated, friendly_name) ==
    [entity_id |-> entity_id, state |-> state, last_updated |-> last_updated,
     friendly_name |-> friendly_name]

Entities ==
    { \* sensor.zp2_a_p25 and sensor.zp2_a_p1: two metrics of one device
      Entity(Some(DEFAULT_PREFIX \o <<"a", "_", "p", "2", "5">>), "12", "T3", None),
      Entity(Some(DEFAULT_PREFIX \o <<"a", "_", "p", "1">>), "7", "T1", None),
      \* sensor.zp2_a__p25: the same device and metric as the first, updated earlier
      Entity(Some(DEFAULT_PREFIX \o <<"a", "_", "_", "p", "2", "5">>), "99", "T2", None),
      \* sensor.zp2_b_p25, named "A"
      Entity(Some(DEFAULT_PREFIX \o <<"b", "_", "p", "2", "5">>), "30", "T4", Some(<<"A">>)),
      \* light.x_p25
      Entity(Some(<<"l", "i", "g", "h", "t", ".", "x", "_", "p", "2", "5">>), "on", "T5", None),
      \* sensor.zp2_c: no candidate is at its end
      Entity(Some(DEFAULT_PREFIX \o <<"c">>), "1", "T6", None),
      \* p25: no domain, and nothing before the token
      Entity(Some(<<"p", "2", "5">>), "0", "T7", None),
      \* an entry with no entity_id
      Entity(None, "x", "T8", None) }

\* the lists GET /states can return: each entity once, in any order
Snapshots ==
    {s \in UNION {[1..n -> Entities] : n \in 0..MaxEntities} :
        \A i, j \in 1..Len(s) : i # j => s[i] # s[j]}

Upstream(kind, status_code, text, json, states) ==
    [kind |-> kind, status_code |-> status_code, text |-> text, json |-> json,
     states |-> states]

Upstreams ==
    { Upstream("response", 200, <<>>, "list", s) : s \in Snapshots }
    \cup
    { Upstream("unreachable", 0, <<>>, "none", <<>>),
      Upstream("timeout", 0, <<>>, "none", <<>>),
      Upstream("response", 401, <<"4", "0", "1", ":", " ", "U", "n", "a", "u", "t", "h">>,
               "none", <<>>),
      \* an error page longer than the diagnostic may be
      Upstream("response", 500, [i \in 1..DetailLimit + 1 |-> "x"], "none", <<>>),
      Upstream("response", 200, <<"<", "h", "t", "m", "l", ">">>, "none", <<>>),
      Upstream("response", 200, <<>>, "object", <<"message">>) }

p25 == <<"p", "2", "5">>

\* request.args of GET /devices, as the (key, value) pairs of the query string
Requests ==
    { <<>>,
      << <<"suffix", p25>> >>,
      \* ?suffix=_p25,_p1
      << <<"suffix", <<"_", "p", "2", "5", ",", "_", "p", "1">> >> >>,
      \* ?suffix=p1&suffix=p25
      << <<"suffix", <<"p", "1">> >>, <<"suffix", p25>> >>,
      \* ?suffix= 5 , ,p25
      << <<"suffix", <<" ", "5", " ", ",", " ", ",", "p", "2", "5">> >> >>,
      \* ?suffix=
      << <<"suffix", <<>> >> >>,
      << <<"prefix", <<>> >>, <<"suffix", <<>> >> >>,
      << <<"prefix", <<>> >>, <<"suffix", p25>> >>,
      << <<"limit", <<"1">> >> >>,
      << <<"limit", <<"1">> >>, <<"suffix", <<"_", "p", "2", "5", ",", "_", "p", "1">> >> >>,
      << <<"limit", <<"0">> >> >>,
      << <<"limit", <<"-", "1">> >> >>,
      << <<"limit", <<"x">> >> >>,
      << <<"limit", <<"2">> >>, <<"prefix", <<>> >>, <<"suffix", p25>> >>,
      \* ?query=A%20
      << <<"query", <<"A", " ">> >> >> }

\* before the first request
NoView ==
    [args |-> <<>>, upstream |-> Upstream("none", 0, <<>>, "none", <<>>),
     query |-> <<>>, prefix |-> <<>>, limit |-> 0, suffixes |-> <<>>,
     escaped |-> "", trace |-> <<>>,
     result |-> Result("none", 0, "", <<>>, NoRequested, <<>>)]

(***************************************************************************)
(* State.                                                                  *)
(*   loop      "running" while loop_forever delivers messages, "aborted"   *)
(*             once an exception has left on_message                       *)
(*   handled   number of messages delivered so far                         *)
(*   cur       the last message delivered and what on_message did with it  *)
(*   published every client.publish so far, in order, each with the number *)
(*             of the message that caused it                               *)
(*   threads   the discovery threads started so far                        *)
(*   view      the GET /devices request of the aggregator, what the        *)
(*             platform does with its bulk fetch, and what devices_view    *)
(*             computed and returned                                       *)
(***************************************************************************)
NoOutcome == Outcome("", "", <<>>, FALSE, "none", FALSE)

Init ==
    /\ loop = "running"
    /\ handled = 0
    /\ cur = [id |-> 0, topic |-> <<>>, payload |-> [kind |-> "none", json |-> JNull],
              resp |-> NoResponse, out |-> NoOutcome]
    /\ published = <<>>
    /\ threads = <<>>
    /\ view = NoView

\* Thread.run() in place of Thread.start(): the cycle is over when on_message returns
NewThread_Run(device_name, device_mac, message_json, by) ==
    [pc |-> "done", by |-> by, device_name |-> device_name, device_mac |-> device_mac,
     message_json |-> message_json, sensors_to_register |-> <<>>,
     discovery_configs |-> <<>>, i |-> 1]

\* the name and the mac handed over in the wrong order
NewThread_Swapped(device_name, device_mac, message_json, by) ==
    [pc |-> "start", by |-> by, device_name |-> device_mac, device_mac |-> device_name,
     message_json |-> message_json, sensors_to_register |-> <<>>,
     discovery_configs |-> <<>>, i |-> 1]

\* threading.Thread(target=clear_and_rediscover, args=(...), daemon=True).start()
NewThread(device_name, device_mac, message_json, by) ==
    [pc |-> "start", by |-> by, device_name |-> device_name, device_mac |-> device_mac,
     message_json |-> message_json, sensors_to_register |-> <<>>,
     discovery_configs |-> <<>>, i |-> 1]

\* loop_forever delivers one message to on_message; the arguments bound the run
OnMessageWithin(max_msgs, max_cycles) ==
    /\ loop = "running"
    /\ handled < max_msgs
    /\ \E msg \in Messages, resp \in Responses :
         LET by == handled + 1
             out == on_message(msg, resp, by)
         IN  /\ out.dispatch => Len(threads) < max_cycles
             /\ handled' = by
             /\ cur' = [id |-> by, topic |-> msg.topic, payload |-> msg.payload,
                        resp |-> resp, out |-> out]
             /\ published' = published \o out.pubs
             /\ threads' = IF out.dispatch
                           THEN Append(threads, NewThread(msg.topic[1], msg.topic[2],
                                                          json_loads(decode(msg.payload).text).value, by))
                           ELSE threads
             /\ loop' = IF out.escaped # "" THEN "aborted" ELSE "running"
    /\ UNCHANGED view

OnMessage == OnMessageWithin(MaxMsgs, MaxCycles)

\* one message more, which can arrive while a cycle is in flight and start another
OnMessageBurst == OnMessageWithin(MaxMsgs + 1, MaxCycles + 1)

(***************************************************************************)
(* clear_and_rediscover, one step per publish or wait.                     *)
(***************************************************************************)
\* the announce loop placed before the clear loop
PhaseAfter_AnnounceFirst(pc) ==
    CASE pc = "start" -> "sleep"
      [] pc = "sleep" -> "announce"
      [] pc = "announce" -> "clear"
      [] pc = "clear" -> "beacon"
      [] pc = "beacon" -> "done"

\* the order of the phases in the body of clear_and_rediscover
PhaseAfter(pc) ==
    CASE pc = "start" -> "clear"
      [] pc = "clear" -> "sleep"
      [] pc = "sleep" -> "announce"
      [] pc = "announce" -> "beacon"
      [] pc = "beacon" -> "done"

\* a daemon thread runs only while the main thread is in loop_forever
Alive(n) == loop = "running" /\ n \in 1..Len(threads)

\* the sensor names are collected; .keys() of a section that is not a dict raises
Collect(n) ==
    /\ Alive(n)
    /\ threads[n].pc = "start"
    /\ LET th == threads[n]
           data_sensors == Section(th.message_json, "data")
           text_sensors == Section(th.message_json, "textdata")
       IN  threads' = [threads EXCEPT ![n] =
             IF ~IsDict(data_sensors) \/ ~IsDict(text_sensors)
             THEN [th EXCEPT !.pc = "raised"]
             ELSE [th EXCEPT !.sensors_to_register = Keys(data_sensors) \o Keys(text_sensors),
                             !.i = 1,
                             !.pc = IF Keys(data_sensors) \o Keys(text_sensors) = <<>>
                                    THEN PhaseAfter(PhaseAfter(th.pc))
                                    ELSE PhaseAfter(th.pc)]]
    /\ UNCHANGED <<loop, handled, cur, published, view>>

\* one empty retained publish to a sensor's discovery-config topic
Clear(n) ==
    /\ Alive(n)
    /\ threads[n].pc = "clear"
    /\ LET th == threads[n]
           sensor_name == th.sensors_to_register[th.i]
       IN  /\ published' = Append(published,
                 Publish(DiscoveryTopic(th.device_name, th.device_mac, sensor_name),
                         Text(""), TRUE, th.by))
           /\ threads' = [threads EXCEPT ![n] =
                 [th EXCEPT !.i = IF th.i = Len(th.sensors_to_register) THEN 1 ELSE th.i + 1,
                            !.pc = IF th.i = Len(th.sensors_to_register)
                                   THEN PhaseAfter(th.pc) ELSE th.pc]]
    /\ UNCHANGED <<loop, handled, cur, view>>

\* the loop over the textdata section left out
BuildConfigs_DataOnly(device_name, device_mac, message_json) ==
    LET data_sensors == Keys(Section(message_json, "data"))
    IN  [k \in 1..Len(data_sensors) |->
            generate_mqtt_discovery_config(device_name, device_mac, "data", data_sensors[k])]

\* the definitions to announce: the data section's, then the textdata section's
BuildConfigs(device_name, device_mac, message_json) ==
    LET data_sensors == Keys(Section(message_json, "data"))
        text_sensors == Keys(Section(message_json, "textdata"))
    IN  [k \in 1..Len(data_sensors) |->
            generate_mqtt_discovery_config(device_name, device_mac, "data", data_sensors[k])]
        \o
        [k \in 1..Len(text_sensors) |->
            generate_mqtt_discovery_textconfig(device_name, device_mac, "textdata", text_sensors[k])]

\* time.sleep(0.7), then the definitions are built
Wait(n) ==
    /\ Alive(n)
    /\ threads[n].pc = "sleep"
    /\ LET th == threads[n]
           cfgs == BuildConfigs(th.device_name, th.device_mac, th.message_json)
       IN  threads' = [threads EXCEPT ![n] =
             [th EXCEPT !.discovery_configs = cfgs,
                        !.i = 1,
                        !.pc = IF cfgs = <<>>
                               THEN PhaseAfter(PhaseAfter(th.pc))
                               ELSE PhaseAfter(th.pc)]]
    /\ UNCHANGED <<loop, handled, cur, published, view>>

\* one retained publish of a definition
Announce(n) ==
    /\ Alive(n)
    /\ threads[n].pc = "announce"
    /\ LET th == threads[n]
           cfg == th.discovery_configs[th.i]
       IN  /\ published' = Append(published,
                 Publish(DiscoveryTopic(th.device_name, th.device_mac, cfg.name),
                         JsonDumps(cfg), TRUE, th.by))
           /\ threads' = [threads EXCEPT ![n] =
                 [th EXCEPT !.i = IF th.i = Len(th.discovery_configs) THEN 1 ELSE th.i + 1,
                            !.pc = IF th.i = Len(th.discovery_configs)
                                   THEN PhaseAfter(th.pc) ELSE th.pc]]
    /\ UNCHANGED <<loop, handled, cur, view>>

\* time.sleep(1), then "online" to the status topic, not retained
delayed_online_publish(n) ==
    /\ Alive(n)
    /\ threads[n].pc = "beacon"
    /\ LET th == threads[n]
       IN  /\ published' = Append(published,
                 Publish(StatusTopic(th.device_name, th.device_mac), Text("online"), FALSE, th.by))
           /\ threads' = [threads EXCEPT ![n] = [th EXCEPT !.pc = PhaseAfter(th.pc)]]
    /\ UNCHANGED <<loop, handled, cur, view>>

clear_and_rediscover(n) ==
    \/ Collect(n)
    \/ Clear(n)
    \/ Wait(n)
    \/ Announce(n)
    \/ delayed_online_publish(n)

Next ==
    \/ OnMessage
    \/ \E n \in 1..Len(threads) : clear_and_rediscover(n)

Spec == Init /\ [][Next]_vars

BurstNext ==
    \/ OnMessageBurst
    \/ \E n \in 1..Len(threads) : clear_and_rediscover(n)

\* messages that arrive while discovery cycles are in flight
BurstSpec == Init /\ [][BurstNext]_vars

\* every started thread keeps running
LiveSpec == BurstSpec /\ \A n \in 1..MaxCycles + 1 : WF_vars(clear_and_rediscover(n))

(***************************************************************************)
(* The aggregator serves one GET /devices: the request and what the        *)
(* platform does with the bulk fetch are the inputs, view is what the      *)
(* handler computed and returned.  It is a process of its own and shares   *)
(* nothing with the MQTT client.                                           *)
(***************************************************************************)
\* a request has arrived and the platform's part in it is settled
ViewInit ==
    /\ loop = "running"
    /\ handled = 0
    /\ cur = [id |-> 0, topic |-> <<>>, payload |-> [kind |-> "none", json |-> JNull],
              resp |-> NoResponse, out |-> NoOutcome]
    /\ published = <<>>
    /\ threads = <<>>
    /\ \E args \in Requests, upstream \in Upstreams :
          view = [NoView EXCEPT !.args = args, !.upstream = upstream]

\* Flask calls the handler and sends what it returns
DevicesView ==
    /\ view.result.kind = "none"
    /\ view' = devices_view(view.args, view.upstream)
    /\ UNCHANGED <<loop, handled, cur, published, threads>>

ViewNext == DevicesView

ViewSpec == ViewInit /\ [][ViewNext]_vars

(***************************************************************************)
(* Vocabulary of the properties: what a delivered message carries, what    *)
(* the platform answered, and the kinds of publish.                        *)
(***************************************************************************)
Positions == 1..Len(published)

\* the payload is the JSON text of an object
ParsedObject(p) == p.kind = "json" /\ IsDict(p.json)

\* Heartbeat or MODEL is a key of the payload object
HasLivenessMarker(p) ==
    ParsedObject(p) /\ (HasKey(p.json, "Heartbeat") \/ HasKey(p.json, "MODEL"))

\* the textdata section is an object with the key FormatVersion
HasFingerprintKey(p) ==
    /\ ParsedObject(p)
    /\ IsDict(DictGet(p.json, "textdata", JNull))
    /\ HasKey(DictGet(p.json, "textdata", JNull), "FormatVersion")

Fingerprint(p) == DictGet(DictGet(p.json, "textdata", JNull), "FormatVersion", JNull)

\* the platform answers 200 with an entity whose state reads s
PlatformReports(resp, s) ==
    /\ ~resp.raised
    /\ resp.status_code = 200
    /\ resp.body.kind = "json"
    /\ IsDict(resp.body.json)
    /\ HasKey(resp.body.json, "state")
    /\ DictGet(resp.body.json, "state", JNull).v = s

IsControlPub(p) == p.payload = JsonDumps([Update |-> "1"])

IsClearPub(p) == p.retain /\ IsEmptyPayload(p.payload)

IsAnnouncePub(p) == p.retain /\ p.payload.json # <<>>

IsBeaconPub(p) == ~p.retain /\ p.payload = Text("online")

\* the publishes a message caused, in order
PubsBy(id) == SelectSeq(published, LAMBDA p : p.by = id)

\* no discovery thread was started for the message
NoThreadFor(id) == \A n \in 1..Len(threads) : threads[n].by # id

\* the message caused nothing: no publish, no query, no discovery thread
Dropped == PubsBy(cur.id) = <<>> /\ ~cur.out.queried /\ NoThreadFor(cur.id)

(***************************************************************************)
(* C1.  Within one discovery cycle, every clear-publish (empty, retained)  *)
(* to a discovery-config topic comes strictly before any announce-publish  *)
(* (non-empty, retained) to the same topic.                                *)
(***************************************************************************)
C1_ClearBeforeAnnounce ==
    \A i, j \in Positions :
        ( /\ published[i].by = published[j].by
          /\ published[i].topic = published[j].topic
          /\ IsClearPub(published[i])
          /\ IsAnnouncePub(published[j]) )
        => i < j

\* a finished cycle of two sensors, each cleared and announced
C1_Witness ==
    \E n \in 1..Len(threads) :
        /\ threads[n].pc = "done"
        /\ Len(threads[n].sensors_to_register) = 2
        /\ threads[n].sensors_to_register[1] # threads[n].sensors_to_register[2]
        /\ \A k \in 1..2 :
              \E i, j \in Positions :
                  /\ published[i].by = threads[n].by
                  /\ published[j].by = threads[n].by
                  /\ published[i].topic = DiscoveryTopic(threads[n].device_name,
                        threads[n].device_mac, threads[n].sensors_to_register[k])
                  /\ published[j].topic = published[i].topic
                  /\ IsClearPub(published[i])
                  /\ IsAnnouncePub(published[j])

(***************************************************************************)
(* C2.  A message that parses to an object, on a topic of three segments   *)
(* with a device name and a mac, with a non-empty FormatVersion in         *)
(* textdata and data and textdata sections that are objects, for which the *)
(* platform does not report that FormatVersion, gets exactly one discovery *)
(* cycle; and every cycle started eventually has published a clear for     *)
(* every metric name of its message, then an announce for each, then one   *)
(* "online" beacon.                                                        *)
(***************************************************************************)
\* the names in one section of a message
SectionNames(message_json, key) ==
    LET x == DictGet(message_json, key, JNull)
    IN  IF IsDict(x) THEN {Keys(x)[k] : k \in 1..Len(Keys(x))} ELSE {}

\* a section is an object, or is not there
WellShaped(message_json, key) ==
    ~HasKey(message_json, key) \/ IsDict(DictGet(message_json, key, JNull))

\* the case of Scenario A
StaleCase ==
    /\ cur.id > 0
    /\ ParsedObject(cur.payload)
    /\ Len(cur.topic) = 3 /\ cur.topic[1] # "" /\ cur.topic[2] # ""
    /\ HasFingerprintKey(cur.payload)
    /\ Truthy(Fingerprint(cur.payload))
    /\ WellShaped(cur.payload.json, "data")
    /\ ~PlatformReports(cur.resp, Fingerprint(cur.payload).v)

\* what the cycle of thread n has published: everything its message caused
\* except the control command
CyclePubs(n) ==
    SelectSeq(published, LAMBDA p : p.by = threads[n].by /\ ~IsControlPub(p))

CycleComplete(n) ==
    LET th == threads[n]
        q == CyclePubs(n)
        names == SectionNames(th.message_json, "data") \cup SectionNames(th.message_json, "textdata")
    IN  /\ \A name \in names :
              /\ \E i \in 1..Len(q) :
                    /\ IsClearPub(q[i])
                    /\ q[i].topic = DiscoveryTopic(th.device_name, th.device_mac, name)
              /\ \E j \in 1..Len(q) :
                    /\ IsAnnouncePub(q[j])
                    /\ q[j].topic = DiscoveryTopic(th.device_name, th.device_mac, name)
        /\ \A i, j \in 1..Len(q) : IsClearPub(q[i]) /\ IsAnnouncePub(q[j]) => i < j
        /\ Len(q) > 0
        /\ IsBeaconPub(q[Len(q)])
        /\ q[Len(q)].topic = StatusTopic(th.device_name, th.device_mac)
        /\ Cardinality({i \in 1..Len(q) : q[i].topic = q[Len(q)].topic}) = 1

\* the cycle's message has sections that are objects
CycleWellShaped(n) ==
    /\ WellShaped(threads[n].message_json, "data")
    /\ WellShaped(threads[n].message_json, "textdata")

C2_CycleDispatchedAndCompletes ==
    /\ [](StaleCase => Cardinality({n \in 1..Len(threads) : threads[n].by = cur.id}) = 1)
    /\ \A n \in 1..MaxCycles + 1 :
          (n <= Len(threads) /\ CycleWellShaped(n)) ~> (n <= Len(threads) /\ CycleComplete(n))

\* the safety half alone, and the final result of a cycle that did finish
C2_DispatchedOnce ==
    StaleCase => Cardinality({n \in 1..Len(threads) : threads[n].by = cur.id}) = 1

C2_DoneIsComplete ==
    \A n \in 1..Len(threads) : threads[n].pc = "done" => CycleComplete(n)

(***************************************************************************)
(* C3.  When the platform reports a FormatVersion entity whose value reads *)
(* the same as the message's fingerprint, the message causes no publish to *)
(* a discovery-config or status topic (every publish it causes is the      *)
(* control command, and no discovery thread is started for it); and with   *)
(* no liveness marker in the payload it causes no publish at all.          *)
(***************************************************************************)
PlatformCurrent ==
    /\ cur.id > 0
    /\ HasFingerprintKey(cur.payload)
    /\ PlatformReports(cur.resp, Fingerprint(cur.payload).v)

C3_CurrentDevicePublishesNothing ==
    PlatformCurrent =>
        /\ NoThreadFor(cur.id)
        /\ \A i \in Positions :
              published[i].by = cur.id =>
                  /\ IsControlPub(published[i])
                  /\ published[i].topic = ControlTopic(cur.topic[1], cur.topic[2])
        /\ ~HasLivenessMarker(cur.payload) => PubsBy(cur.id) = <<>>

\* Scenario B: the registration query was made and answered with the fingerprint
C3_Witness ==
    /\ PlatformCurrent
    /\ cur.out.queried
    /\ cur.out.verdict = "current"
    /\ ~HasLivenessMarker(cur.payload)
    /\ handled = cur.id

(***************************************************************************)
(* C4.  Every message that parses to an object, on a topic of three        *)
(* segments, whose payload has the key Heartbeat or MODEL, causes exactly  *)
(* one publish of {"Update": "1"} to <device>/<mac>/control, whatever the  *)
(* registration state.                                                     *)
(***************************************************************************)
ControlPubsOfCur ==
    {i \in Positions :
        /\ published[i].by = cur.id
        /\ published[i].topic = ControlTopic(cur.topic[1], cur.topic[2])
        /\ published[i].payload = JsonDumps([Update |-> "1"])}

C4_ControlNotGated ==
    (cur.id > 0 /\ Len(cur.topic) = 3 /\ HasLivenessMarker(cur.payload))
        => Cardinality(ControlPubsOfCur) = 1

(***************************************************************************)
(* C5.  The registration check answers current exactly when the query      *)
(* returned status 200 with an entity whose value reads the same as the    *)
(* fingerprint; in every other case it answers stale; it never raises.     *)
(***************************************************************************)
C5_CurrentIffPlatformAgrees ==
    cur.out.queried =>
        /\ cur.out.verdict \in {"current", "stale"}
        /\ cur.out.verdict = "current" <=> PlatformReports(cur.resp, Fingerprint(cur.payload).v)
        /\ cur.out.caught = ""
        /\ cur.out.escaped = ""

\* a query answered with a non-success status whose body carries the fingerprint
C5_Witness ==
    /\ cur.out.queried
    /\ ~cur.resp.raised
    /\ cur.resp.status_code # 200
    /\ cur.resp.body.kind = "json"
    /\ DictGet(cur.resp.body.json, "state", JNull) = Fingerprint(cur.payload)
    /\ cur.out.verdict = "stale"

(***************************************************************************)
(* C6.  A message on a topic of fewer than three segments causes no        *)
(* control publish, no registration query, no discovery publish and no     *)
(* beacon, whatever its payload.                                           *)
(***************************************************************************)
C6_ShortTopicDropped ==
    (cur.id > 0 /\ Len(cur.topic) < 3) => Dropped

\* a short topic with a payload that has a liveness marker and a fingerprint
C6_Witness ==
    /\ cur.id > 0
    /\ Len(cur.topic) < 3
    /\ HasLivenessMarker(cur.payload)
    /\ ~IsNone(DictGet(cur.payload.json, "Heartbeat", JNull))
    /\ HasFingerprintKey(cur.payload)
    /\ Truthy(Fingerprint(cur.payload))
    /\ ~PlatformReports(cur.resp, Fingerprint(cur.payload).v)

(***************************************************************************)
(* C7.  on_message does not wait for the cycle it starts: when it returns  *)
(* from a message with a stale verdict the new thread has not run yet and   *)
(* nothing of the cycle is published, and the loop goes on delivering.     *)
(***************************************************************************)
C7_HandlerDoesNotWait ==
    [][(handled' = handled + 1 /\ cur'.out.verdict = "stale") =>
          /\ Len(threads') = Len(threads) + 1
          /\ threads'[Len(threads')].by = handled'
          /\ threads'[Len(threads')].pc = "start"
          /\ loop' = "running"
          /\ published' = published \o cur'.out.pubs
          /\ \A i \in 1..Len(cur'.out.pubs) : IsControlPub(cur'.out.pubs[i])
      ]_vars

\* a later message got its control publish and its query while the first
\* message's cycle was between its clear phase and its beacon
C7_Witness ==
    /\ Len(threads) >= 1
    /\ threads[1].by = 1
    /\ threads[1].pc \in {"sleep", "announce", "beacon"}
    /\ cur.id = 2
    /\ cur.out.queried
    /\ Cardinality(ControlPubsOfCur) = 1

(***************************************************************************)
(* C8.  No exception leaves on_message, whatever the topic and the payload *)
(* bytes, and the loop goes on delivering messages.                        *)
(***************************************************************************)
C8_NoExceptionEscapes == cur.out.escaped = "" /\ loop = "running"

(***************************************************************************)
(* C9.  A payload that is not JSON is dropped: no control publish, no      *)
(* registration query, no discovery cycle, on any topic.                   *)
(***************************************************************************)
C9_MalformedDropped ==
    (cur.id > 0 /\ cur.payload.kind = "malformed") =>
        /\ Dropped
        /\ cur.out.caught = "JSONDecodeError"
        /\ cur.out.escaped = ""

\* a payload that is not JSON, on a topic of a device
C9_Witness ==
    /\ cur.id > 0
    /\ cur.payload.kind = "malformed"
    /\ Len(cur.topic) = 3 /\ cur.topic[1] # "" /\ cur.topic[2] # ""
    /\ ~PlatformReports(cur.resp, "3")

(***************************************************************************)
(* C10.  With an empty device name or mac, or with no FormatVersion in the *)
(* textdata section, no registration query is made and no discovery cycle  *)
(* is started for the message.                                             *)
(***************************************************************************)
IdentityEmpty == Len(cur.topic) >= 2 /\ (cur.topic[1] = "" \/ cur.topic[2] = "")

C10_NoIdentityOrFingerprintNoDecision ==
    (cur.id > 0 /\ (IdentityEmpty \/ ~HasFingerprintKey(cur.payload))) =>
        ~cur.out.queried /\ NoThreadFor(cur.id)

\* a fingerprint the platform does not have, from a device with no name
C10_Witness ==
    /\ cur.id > 0
    /\ Len(cur.topic) = 3 /\ cur.topic[1] = "" /\ cur.topic[2] # ""
    /\ HasFingerprintKey(cur.payload)
    /\ Truthy(Fingerprint(cur.payload))
    /\ ~PlatformReports(cur.resp, Fingerprint(cur.payload).v)
    /\ ~cur.out.queried

\* a parsed message of a named device with no textdata section
C10_WitnessNoFingerprint ==
    /\ cur.id > 0
    /\ Len(cur.topic) = 3 /\ cur.topic[1] # "" /\ cur.topic[2] # ""
    /\ ParsedObject(cur.payload)
    /\ ~HasKey(cur.payload.json, "textdata")
    /\ ~cur.out.queried

(***************************************************************************)
(* C11.  Every message that parses to an object, on a topic of three       *)
(* segments with a device name and a mac, whose textdata section has the   *)
(* key FormatVersion, whatever the value of that key, gets exactly one     *)
(* registration query, and a discovery cycle is started for it exactly     *)
(* when the verdict is stale.                                              *)
(***************************************************************************)
FingerprintKeyCase ==
    /\ cur.id > 0
    /\ ParsedObject(cur.payload)
    /\ Len(cur.topic) = 3 /\ cur.topic[1] # "" /\ cur.topic[2] # ""
    /\ HasFingerprintKey(cur.payload)

\* one query, and one thread for a stale verdict, none for a current one
DecidedOnce ==
    /\ cur.out.queried
    /\ cur.out.verdict \in {"current", "stale"}
    /\ Cardinality({n \in 1..Len(threads) : threads[n].by = cur.id})
          = IF cur.out.verdict = "stale" THEN 1 ELSE 0

FingerprintNotEmpty ==
    /\ ~IsNone(Fingerprint(cur.payload))
    /\ Fingerprint(cur.payload).v \notin {"", "0"}

C11_WitnessEmpty ==
    /\ FingerprintKeyCase
    /\ Fingerprint(cur.payload) = JStr("")
    /\ ~cur.out.queried

(***************************************************************************)
(* C12.  Whether the control command is published depends only on the      *)
(* presence of the keys: with Heartbeat or MODEL among the keys of the     *)
(* payload, whatever the value (null, 0, the empty string), the control    *)
(* command is published; with neither key it is not.                       *)
(***************************************************************************)
ControlResponderRuns == cur.id > 0 /\ ParsedObject(cur.payload) /\ Len(cur.topic) = 3

C12_MarkerByPresence ==
    ControlResponderRuns =>
        (HasLivenessMarker(cur.payload) <=> ControlPubsOfCur # {})

\* what the code does: a marker counts when its value is not null
HasNonNullMarker(p) ==
    \/ ~IsNone(DictGet(p.json, "Heartbeat", JNull))
    \/ ~IsNone(DictGet(p.json, "MODEL", JNull))

C12_MarkerByNonNullValue ==
    ControlResponderRuns =>
        (HasNonNullMarker(cur.payload) <=> Cardinality(ControlPubsOfCur) = 1)

\* the marker MODEL with the value 0 is answered
C12_WitnessZero ==
    /\ ControlResponderRuns
    /\ DictGet(cur.payload.json, "MODEL", JNull) = JInt("0")
    /\ Cardinality(ControlPubsOfCur) = 1

\* the marker Heartbeat with the value null is not
C12_WitnessNull ==
    /\ ControlResponderRuns
    /\ HasKey(cur.payload.json, "Heartbeat")
    /\ IsNone(DictGet(cur.payload.json, "Heartbeat", JNull))
    /\ ControlPubsOfCur = {}

(***************************************************************************)
(* C13.  The sensor names a finished discovery cycle has cleared, and the  *)
(* ones it has announced, are exactly the metric names found in the data,  *)
(* data1 and textdata sections of its message; a metric that is only in    *)
(* the legacy section data1 is cleared and announced.                      *)
(***************************************************************************)
\* the discovery-config topics that thread n has published to, by kind of publish
ClearedTopics(n) ==
    {published[i].topic : i \in {k \in Positions :
        published[k].by = threads[n].by /\ IsClearPub(published[k])}}

AnnouncedTopics(n) ==
    {published[i].topic : i \in {k \in Positions :
        published[k].by = threads[n].by /\ IsAnnouncePub(published[k])}}

TopicsOfNames(n, names) ==
    {DiscoveryTopic(threads[n].device_name, threads[n].device_mac, name) : name \in names}

C13_NamesOfAllThreeSections ==
    \A n \in 1..Len(threads) :
        threads[n].pc = "done" =>
            LET names == SectionNames(threads[n].message_json, "data")
                         \cup SectionNames(threads[n].message_json, "data1")
                         \cup SectionNames(threads[n].message_json, "textdata")
            IN  /\ ClearedTopics(n) = TopicsOfNames(n, names)
                /\ AnnouncedTopics(n) = TopicsOfNames(n, names)

\* what the code does: the names of data and textdata
C13_NamesOfDataAndTextdata ==
    \A n \in 1..Len(threads) :
        threads[n].pc = "done" =>
            LET names == SectionNames(threads[n].message_json, "data")
                         \cup SectionNames(threads[n].message_json, "textdata")
            IN  /\ ClearedTopics(n) = TopicsOfNames(n, names)
                /\ AnnouncedTopics(n) = TopicsOfNames(n, names)

\* a finished cycle of a message with a metric in data1 that was never cleared
C13_WitnessLegacyOnly ==
    \E n \in 1..Len(threads) :
        /\ threads[n].pc = "done"
        /\ SectionNames(threads[n].message_json, "data1") = {"old"}
        /\ DiscoveryTopic(threads[n].device_name, threads[n].device_mac, "old")
              \notin ClearedTopics(n) \cup AnnouncedTopics(n)
        /\ ClearedTopics(n) # {}

(***************************************************************************)
(* Vocabulary of the aggregator's properties.                              *)
(***************************************************************************)
\* the request was answered with the grouped result
Grouped == view.result.kind = "devices"

\* the steps of the loop that got as far as the suffix match
Scanned == {i \in 1..Len(view.trace) : view.trace[i].verdict \in {"kept", "suffix"}}

\* the positions of the candidates that are at the end of the id, with or
\* without an underscore before them
Matching(eid, suffixes) ==
    {k \in 1..Len(suffixes) :
        EndsWith(eid, <<"_">> \o suffixes[k]) \/ EndsWith(eid, suffixes[k])}

(***************************************************************************)
(* C15.  Suffix matching takes the first match in the order of the list,   *)
(* not the longest: the matched token of an entity is the first entry s of *)
(* the suffix list for which the id ends with "_" + s or with s, and the   *)
(* entity is rejected when no entry matches.                               *)
(***************************************************************************)
C15_FirstMatchInListOrder ==
    Grouped =>
        \A i \in Scanned :
            LET t == view.trace[i]
                M == Matching(t.eid, view.suffixes)
            IN  IF M = {} THEN t.verdict = "suffix"
                ELSE /\ t.verdict = "kept"
                     /\ t.matched_suffix = Some(view.suffixes[MinOf(M)])

\* the list ["_p25", "_p1"] and an id that ends in _p1: the token is _p1
C15_Witness ==
    /\ Grouped
    /\ view.suffixes = << <<"_", "p", "2", "5">>, <<"_", "p", "1">> >>
    /\ \E i \in Scanned :
          /\ EndsWith(view.trace[i].eid, <<"_", "p", "1">>)
          /\ view.trace[i].matched_suffix = Some(<<"_", "p", "1">>)

\* the list ["5", "p25"] and an id that ends in p25: the token is 5, the shorter one
C15_WitnessNotLongest ==
    /\ Grouped
    /\ view.suffixes = << <<"5">>, <<"p", "2", "5">> >>
    /\ \E i \in Scanned :
          /\ EndsWith(view.trace[i].eid, <<"p", "2", "5">>)
          /\ view.trace[i].matched_suffix = Some(<<"5">>)
          /\ \E j \in 1..Len(view.result.devices) :
                /\ view.result.devices[j].device_id = view.trace[i].device_label
                /\ \E k \in 1..Len(view.result.devices[j].metrics) :
                      view.result.devices[j].metrics[k].key = <<"5">>

\* the steps of the loop that put an entity into the map
Kept == {i \in 1..Len(view.trace) : view.trace[i].verdict = "kept"}

\* the device labels the snapshot yields
Labels == {view.trace[i].device_label : i \in Kept}

\* the metric keys the snapshot yields for a label
KeysOf(label) ==
    {view.trace[i].matched_suffix.chars : i \in {k \in Kept : view.trace[k].device_label = label}}

Devices == view.result.devices

(***************************************************************************)
(* C16.  Truncation keeps the smallest labels: with a positive limit L and *)
(* a snapshot that yields n distinct device labels, the result has exactly *)
(* min(L, n) device records, they are the min(L, n) smallest labels in     *)
(* ascending lexicographic order, and each record that is kept has every   *)
(* metric matched for its label.                                           *)
(***************************************************************************)
C16_TruncationKeepsSmallest ==
    (Grouped /\ view.limit > 0) =>
        LET n == Cardinality(Labels)
            shown == {Devices[j].device_id : j \in 1..Len(Devices)}
        IN  /\ Len(Devices) = IF view.limit < n THEN view.limit ELSE n
            /\ \A j \in 1..Len(Devices) - 1 :
                  StrLess(Devices[j].device_id, Devices[j + 1].device_id)
            /\ shown \subseteq Labels
            /\ \A a \in shown, b \in Labels \ shown : StrLess(a, b)
            /\ \A j \in 1..Len(Devices) :
                  {Devices[j].metrics[k].key : k \in 1..Len(Devices[j].metrics)}
                      = KeysOf(Devices[j].device_id)

\* limit 1 and two labels, the greater one seen first; the record that is kept
\* has both of its metrics
C16_Witness ==
    /\ Grouped
    /\ view.limit = 1
    /\ Cardinality(Labels) = 2
    /\ Len(Devices) = 1
    /\ Len(Devices[1].metrics) = 2
    /\ view.trace[1].verdict = "kept"
    /\ view.trace[1].device_label # Devices[1].device_id

(***************************************************************************)
(* C17.  The device label of a matched entity is its id without the domain *)
(* segment (everything up to the first "."), without the matched token at  *)
(* the end and the underscore that separates it, and without the           *)
(* underscores then left at the end.  So <domain>.<label>_<s1> and         *)
(* <domain>.<label>_<s2>, matched on s1 and s2, get the same label and are *)
(* two metrics of one device record.                                       *)
(***************************************************************************)
\* lab, then underscores only, then token make up the id after its first "."
DerivedFrom(eid, token, lab) ==
    \E d \in 0..Len(eid) :
        /\ \A k \in 1..d - 1 : eid[k] # "."
        /\ IF d = 0 THEN \A k \in 1..Len(eid) : eid[k] # "." ELSE eid[d] = "."
        /\ LET base == SubSeq(eid, d + 1, Len(eid))
           IN  /\ Len(lab) + Len(token) <= Len(base)
               /\ StartsWith(base, lab)
               /\ EndsWith(base, token)
               /\ \A k \in Len(lab) + 1..Len(base) - Len(token) : base[k] = "_"
               /\ (lab = <<>> \/ lab[Len(lab)] # "_")

C17_LabelDerivation ==
    Grouped =>
        /\ \A i \in Kept :
              DerivedFrom(view.trace[i].eid, view.trace[i].matched_suffix.chars,
                          view.trace[i].device_label)
        /\ \A i, j \in Kept :
              LET a == view.trace[i]
                  b == view.trace[j]
              IN  ( /\ EndsWith(a.eid, <<"_">> \o a.matched_suffix.chars)
                    /\ EndsWith(b.eid, <<"_">> \o b.matched_suffix.chars)
                    /\ DropLast(a.eid, Len(a.matched_suffix.chars) + 1)
                          = DropLast(b.eid, Len(b.matched_suffix.chars) + 1) )
                  => a.device_label = b.device_label

\* sensor.zp2_a_p25 matched on p25 is the device zp2_a, and sensor.zp2_a_p1 matched
\* on p1 is a second metric of the same record
C17_Witness ==
    /\ Grouped
    /\ \E i, j \in Kept :
          /\ view.trace[i].eid = DEFAULT_PREFIX \o <<"a", "_", "p", "2", "5">>
          /\ view.trace[i].matched_suffix = Some(<<"p", "2", "5">>)
          /\ view.trace[i].device_label = <<"z", "p", "2", "_", "a">>
          /\ view.trace[j].eid = DEFAULT_PREFIX \o <<"a", "_", "p", "1">>
          /\ view.trace[j].matched_suffix = Some(<<"p", "1">>)
    /\ \E r \in 1..Len(Devices) :
          /\ Devices[r].device_id = <<"z", "p", "2", "_", "a">>
          /\ Len(Devices[r].metrics) = 2

\* sensor.zp2_a__p25: the underscore left after the token is cut is trimmed
C17_WitnessTrimmed ==
    /\ Grouped
    /\ \E i \in Kept :
          /\ view.trace[i].eid = DEFAULT_PREFIX \o <<"a", "_", "_", "p", "2", "5">>
          /\ view.trace[i].trailing = Some(<<"_", "p", "2", "5">>)
          /\ view.trace[i].device_label = <<"z", "p", "2", "_", "a">>

(***************************************************************************)
(* C18.  When several entities of the snapshot have the same device label  *)
(* and the same matched suffix, the metric of that suffix in the device    *)
(* record has the value and last_updated of the one that comes last in the *)
(* snapshot, whatever the timestamps of the entities are.                  *)
(***************************************************************************)
\* the steps that claimed the metric key of the label
Claimants(label, key) ==
    {i \in Kept : view.trace[i].device_label = label
                    /\ view.trace[i].matched_suffix.chars = key}

C18_LastInSnapshotWins ==
    Grouped =>
        \A r \in 1..Len(Devices) :
            \A k \in 1..Len(Devices[r].metrics) :
                LET metric == Devices[r].metrics[k]
                    last == view.trace[MaxOf(Claimants(Devices[r].device_id, metric.key))]
                IN  /\ Claimants(Devices[r].device_id, metric.key) # {}
                    /\ metric.value = last.value
                    /\ metric.last_updated = last.last_updated

\* sensor.zp2_a_p25 updated at T3, then sensor.zp2_a__p25 updated at T2: the
\* metric is the one of T2
C18_Witness ==
    /\ Grouped
    /\ \E i, j \in Kept :
          /\ i < j
          /\ view.trace[i].device_label = view.trace[j].device_label
          /\ view.trace[i].matched_suffix = view.trace[j].matched_suffix
          /\ view.trace[i].last_updated = "T3"
          /\ view.trace[j].last_updated = "T2"
          /\ j = MaxOf(Claimants(view.trace[j].device_label, view.trace[j].matched_suffix.chars))
          /\ \E r \in 1..Len(Devices) :
                /\ Devices[r].device_id = view.trace[j].device_label
                /\ \E k \in 1..Len(Devices[r].metrics) :
                      /\ Devices[r].metrics[k].key = view.trace[j].matched_suffix.chars
                      /\ Devices[r].metrics[k].value = "99"
                      /\ Devices[r].metrics[k].last_updated = "T2"

(***************************************************************************)
(* C19.  With an empty suffix list the suffix filter is off: every entity  *)
(* that passes the prefix filter and the keyword filter and has a device   *)
(* label that is not empty is in the grouped result.                       *)
(***************************************************************************)
\* the steps of the loop that passed the prefix filter and the keyword filter
PassedFilters == {i \in 1..Len(view.trace) : view.trace[i].verdict \notin {"prefix", "query"}}

\* the label of an id from which no token is cut
WholeLabel(eid) == RStripUnderscores(ObjectId(eid))

C19_EmptyListDisablesFilter ==
    (Grouped /\ view.suffixes = <<>>) =>
        \A i \in PassedFilters :
            WholeLabel(view.trace[i].eid) # <<>> =>
                \E r \in 1..Len(Devices) : Devices[r].device_id = WholeLabel(view.trace[i].eid)

\* what the code does: with an empty suffix list nothing is in the result
C19_EmptyListRejectsAll ==
    (Grouped /\ view.suffixes = <<>>) =>
        /\ Devices = <<>>
        /\ \A i \in PassedFilters : view.trace[i].verdict = "suffix"

\* ?suffix= and a snapshot with sensor.zp2_c, which passes the default prefix
C19_WitnessEmptyList ==
    /\ Grouped
    /\ view.suffixes = <<>>
    /\ view.prefix = DEFAULT_PREFIX
    /\ \E i \in PassedFilters : view.trace[i].eid = DEFAULT_PREFIX \o <<"c">>
    /\ Devices = <<>>

(***************************************************************************)
(* C20.  Every transport failure of the bulk fetch (the platform cannot be *)
(* reached, the connection fails, the request times out, or the response   *)
(* has a non-success status) is answered with the gateway-error result,    *)
(* status 502 with a diagnostic of bounded length, and not with the        *)
(* generic error result.                                                   *)
(***************************************************************************)
\* the handler got as far as the fetch and has answered
Fetched == view.result.kind # "none" /\ view.escaped = ""

NonSuccessStatus == view.upstream.kind = "response" /\ view.upstream.status_code >= 400

TransportFailure ==
    Fetched /\ (view.upstream.kind \in {"unreachable", "timeout"} \/ NonSuccessStatus)

GatewayError ==
    /\ view.result.kind = "gateway-error"
    /\ view.result.status = 502
    /\ Len(view.result.detail) <= DetailLimit

C20_TransportFailureIsGatewayError == TransportFailure => GatewayError

\* what the code does: only a response with a non-success status is a gateway error
C20_OnlyStatusIsGatewayError ==
    Fetched => (GatewayError <=> NonSuccessStatus)

\* a platform that cannot be reached is answered with the generic error, status 500
C20_WitnessUnreachable ==
    /\ Fetched
    /\ view.upstream.kind = "unreachable"
    /\ view.result.kind = "error"
    /\ view.result.status = 500

\* a status 500 with a long error page is answered with 502 and the page cut short
C20_WitnessStatus ==
    /\ Fetched
    /\ view.upstream.status_code = 500
    /\ Len(view.upstream.text) > DetailLimit
    /\ GatewayError
    /\ view.result.error = "HTTP 500"
    /\ Len(view.result.detail) = DetailLimit

(***************************************************************************)
(* C21.  No raw failure leaves the query boundary: whatever the arguments  *)
(* of a GET /devices request are, a limit that is not an integer included, *)
(* and whatever the platform returns, devices_view returns the grouped     *)
(* result or a structured error result, and no exception leaves it.        *)
(***************************************************************************)
\* the request has been handled
Answered == view.result.kind # "none"

C21_NoExceptionLeavesHandler ==
    Answered =>
        /\ view.escaped = ""
        /\ view.result.kind \in {"devices", "gateway-error", "error"}

\* the limit argument is given and is not the text of an integer
LimitNotInteger ==
    /\ \E i \in 1..Len(view.args) : view.args[i][1] = "limit"
    /\ int(ArgsGet(view.args, "limit", <<>>)).raised # ""

\* what the code does: an exception leaves the handler exactly for such a limit
C21_OnlyLimitEscapes ==
    Answered =>
        /\ (view.escaped # "" <=> LimitNotInteger)
        /\ view.escaped = "" => view.result.kind \in {"devices", "gateway-error", "error"}

\* ?limit=x: the ValueError of int() leaves devices_view
C21_WitnessLimit ==
    /\ Answered
    /\ ArgsGet(view.args, "limit", <<>>) = <<"x">>
    /\ view.escaped = "ValueError"

\* a body that is a JSON object, not a list, is answered with the generic error
C21_WitnessObjectBody ==
    /\ Answered
    /\ view.upstream.json = "object"
    /\ view.escaped = ""
    /\ view.result.kind = "error"

(***************************************************************************)
(* C22.  In a discovery cycle the "online" beacon is the last publish and  *)
(* the only publish to the status topic: it comes after every announce of  *)
(* the cycle, is sent once, not retained, with the payload "online", and   *)
(* its topic <device>/<mac>/status is the availability_topic of every      *)
(* definition the cycle announced.                                         *)
(***************************************************************************)
\* the positions in the publishes of cycle n that are not discovery-config publishes
StatusPubs(n) ==
    {i \in 1..Len(CyclePubs(n)) : ~IsClearPub(CyclePubs(n)[i]) /\ ~IsAnnouncePub(CyclePubs(n)[i])}

C22_BeaconLastAndOnly ==
    \A n \in 1..Len(threads) :
        LET q == CyclePubs(n)
            status == threads[n].device_name \o "/" \o threads[n].device_mac \o "/status"
        IN  /\ Cardinality(StatusPubs(n)) <= 1
            /\ threads[n].pc = "done" => Cardinality(StatusPubs(n)) = 1
            /\ \A i \in StatusPubs(n) :
                  /\ i = Len(q)
                  /\ q[i].topic = status
                  /\ ~q[i].retain
                  /\ q[i].payload = Text("online")
            /\ \A j \in 1..Len(q) :
                  IsAnnouncePub(q[j]) =>
                      /\ q[j].payload.json[1].availability_topic = status
                      /\ \A i \in StatusPubs(n) : j < i

\* a finished cycle that announced two definitions and then sent its beacon
C22_Witness ==
    \E n \in 1..Len(threads) :
        /\ threads[n].pc = "done"
        /\ Cardinality({j \in 1..Len(CyclePubs(n)) : IsAnnouncePub(CyclePubs(n)[j])}) = 2
        /\ IsBeaconPub(CyclePubs(n)[Len(CyclePubs(n))])

(***************************************************************************)
(* C23.  A message on a topic of more than three segments is dropped like  *)
(* one on a short topic: no control publish, no registration query, no     *)
(* discovery cycle, and on_message returns normally.                       *)
(***************************************************************************)
LongTopic == cur.id > 0 /\ Len(cur.topic) > 3

C23_LongTopicDropped ==
    LongTopic => (Dropped /\ cur.out.escaped = "" /\ loop = "running")

\* what the code does: dropped always, and returned from when the bytes are text
C23_LongTopicDroppedWhenDecodable ==
    LongTopic =>
        /\ Dropped
        /\ cur.payload.kind # "undecodable" => (cur.out.escaped = "" /\ loop = "running")
        /\ ParsedObject(cur.payload) => cur.out.caught = "ValueError"

\* four segments, a liveness marker and a fingerprint the platform does not have
C23_WitnessDropped ==
    /\ LongTopic
    /\ HasLivenessMarker(cur.payload)
    /\ ~IsNone(DictGet(cur.payload.json, "Heartbeat", JNull))
    /\ HasFingerprintKey(cur.payload)
    /\ Truthy(Fingerprint(cur.payload))
    /\ ~PlatformReports(cur.resp, Fingerprint(cur.payload).v)
    /\ cur.out.caught = "ValueError"
    /\ Dropped

\* four segments and bytes that are not UTF-8: the exception leaves on_message
C23_WitnessEscaped ==
    /\ LongTopic
    /\ cur.payload.kind = "undecodable"
    /\ cur.out.escaped = "UnicodeDecodeError"
    /\ loop = "aborted"

(***************************************************************************)
(* C24.  No feedback loop: the control command the add-on publishes,       *)
(* {"Update": "1"} on <device>/<mac>/control, when the subscription        *)
(* +/+/control delivers it back to on_message, causes no publish, no       *)
(* registration query and no discovery cycle.                              *)
(***************************************************************************)
\* the message delivered is the add-on's own control command
OwnControlCommand ==
    /\ cur.id > 0
    /\ Len(cur.topic) = 3
    /\ cur.topic[3] = "control"
    /\ cur.payload = Body(UpdateCommand)

C24_NoFeedbackLoop ==
    OwnControlCommand => (Dropped /\ cur.out.escaped = "" /\ cur.out.caught = "")

\* the command came back on the control topic of a device and was dropped
C24_Witness ==
    /\ OwnControlCommand
    /\ cur.topic[1] # "" /\ cur.topic[2] # ""
    /\ ~PlatformReports(cur.resp, "3")
    /\ PubsBy(cur.id) = <<>>
    /\ handled = cur.id

\* a device message was answered with the command, and the command came back next
C24_WitnessEcho ==
    /\ OwnControlCommand
    /\ cur.id = 2
    /\ \E i \in Positions :
          /\ published[i].by = 1
          /\ IsControlPub(published[i])
          /\ published[i].topic = ControlTopic(cur.topic[1], cur.topic[2])
    /\ PubsBy(cur.id) = <<>>

(***************************************************************************)
(* C25.  Whatever the interleaving of discovery cycles that run at the     *)
(* same time, cycles of one device started by successive stale messages    *)
(* included: once every cycle that was started has finished, the last      *)
(* payload published to each discovery-config topic that any cycle touched *)
(* is a sensor definition, never the empty clear payload.                  *)
(***************************************************************************)
\* every thread started has come to its end
AllCyclesFinished ==
    /\ threads # <<>>
    /\ \A n \in 1..Len(threads) : threads[n].pc \in {"done", "raised"}

\* the position of the last publish to the topic
LastTo(topic) == MaxOf({i \in Positions : published[i].topic = topic})

C25_LastPayloadIsDefinition ==
    AllCyclesFinished =>
        \A i \in Positions :
            (IsClearPub(published[i]) \/ IsAnnouncePub(published[i])) =>
                IsAnnouncePub(published[LastTo(published[i].topic)])

\* two finished cycles of one device; the second cleared a topic after the first
\* had announced it
C25_Witness ==
    /\ AllCyclesFinished
    /\ Len(threads) = 2
    /\ threads[1].pc = "done" /\ threads[2].pc = "done"
    /\ \E i, j \in Positions :
          /\ i < j
          /\ published[i].topic = published[j].topic
          /\ published[i].by = threads[1].by /\ IsAnnouncePub(published[i])
          /\ published[j].by = threads[2].by /\ IsClearPub(published[j])

\* two finished cycles of one device; the first announced a topic after the second
\* had cleared it and announced it
C25_WitnessOvertaken ==
    /\ AllCyclesFinished
    /\ Len(threads) = 2
    /\ \E i, j \in Positions :
          /\ i < j
          /\ published[i].topic = published[j].topic
          /\ published[i].by = threads[2].by /\ IsAnnouncePub(published[i])
          /\ published[j].by = threads[1].by /\ IsAnnouncePub(published[j])

(***************************************************************************)
(* C26.  Every publish that a message received on d/m/x causes goes to a   *)
(* topic built from that d and m: d/m/control, d/m/status or               *)
(* homeassistant/sensor/d_m_<sensor>/config.  For two distinct device      *)
(* identities, handling a message of one never publishes to a control,     *)
(* status or discovery-config topic of the other.                          *)
(***************************************************************************)
\* the metric names of the messages
MetricNames == {"ink", "FormatVersion", "old"}

\* the topics of a device identity, each built as the claim writes it
ControlAndStatusOf(d, m) == {d \o "/" \o m \o "/control", d \o "/" \o m \o "/status"}

DiscoveryOf(d, m) ==
    {"homeassistant/sensor/" \o d \o "_" \o m \o "_" \o name \o "/config" : name \in MetricNames}

\* device identities: those of the inbound topics, and one that is written with the
\* same characters as printer_B, BB22 when name and mac are joined
Identities ==
    { <<"printerA", "AA11">>, <<"printer_B", "BB22">>, <<"printer", "B_BB22">> }

\* the names among them that have no underscore
NoUnderscore == {"printerA", "AA11", "BB22", "printer"}

\* the topics the last message has caused a publish to
TopicsOfCur == {published[i].topic : i \in {k \in Positions : published[k].by = cur.id}}

FromDevice == cur.id > 0 /\ Len(cur.topic) = 3

OwnTopicsOnly ==
    TopicsOfCur \subseteq
        ControlAndStatusOf(cur.topic[1], cur.topic[2]) \cup DiscoveryOf(cur.topic[1], cur.topic[2])

C26_WitnessSharedTopic ==
    /\ FromDevice
    /\ cur.topic[1] = "printer_B" /\ cur.topic[2] = "BB22"
    /\ TopicsOfCur \cap DiscoveryOf("printer", "B_BB22") # {}

(***************************************************************************)
(* C27.  Within one discovery cycle every distinct sensor name of the      *)
(* message gets exactly one clear publish and exactly one announce publish *)
(* on its discovery-config topic, also when the same metric name is in the *)
(* data section and in the textdata section.                               *)
(***************************************************************************)
\* the clear publishes, and the announce publishes, of cycle n on the topic of a name
ClearsOf(n, name) ==
    {i \in 1..Len(CyclePubs(n)) :
        /\ IsClearPub(CyclePubs(n)[i])
        /\ CyclePubs(n)[i].topic
              = DiscoveryTopic(threads[n].device_name, threads[n].device_mac, name)}

AnnouncesOf(n, name) ==
    {i \in 1..Len(CyclePubs(n)) :
        /\ IsAnnouncePub(CyclePubs(n)[i])
        /\ CyclePubs(n)[i].topic
              = DiscoveryTopic(threads[n].device_name, threads[n].device_mac, name)}

C27_OneClearOneAnnouncePerName ==
    \A n \in 1..Len(threads) :
        threads[n].pc = "done" =>
            \A name \in SectionNames(threads[n].message_json, "data")
                        \cup SectionNames(threads[n].message_json, "textdata") :
                /\ Cardinality(ClearsOf(n, name)) = 1
                /\ Cardinality(AnnouncesOf(n, name)) = 1

\* what the code does: one clear and one announce for each section the name is in
C27_OncePerSection ==
    \A n \in 1..Len(threads) :
        threads[n].pc = "done" =>
            \A name \in SectionNames(threads[n].message_json, "data")
                        \cup SectionNames(threads[n].message_json, "textdata") :
                LET times == IF name \in SectionNames(threads[n].message_json, "data")
                                         \cap SectionNames(threads[n].message_json, "textdata")
                             THEN 2 ELSE 1
                IN  /\ Cardinality(ClearsOf(n, name)) = times
                    /\ Cardinality(AnnouncesOf(n, name)) = times

\* FormatVersion in both sections: cleared twice, announced as a number and then as a text
C27_WitnessTwice ==
    \E n \in 1..Len(threads) :
        /\ threads[n].pc = "done"
        /\ "FormatVersion" \in SectionNames(threads[n].message_json, "data")
        /\ Cardinality(ClearsOf(n, "FormatVersion")) = 2
        /\ Cardinality(AnnouncesOf(n, "FormatVersion")) = 2
        /\ \E i, j \in AnnouncesOf(n, "FormatVersion") :
              /\ i < j
              /\ CyclePubs(n)[i].payload # CyclePubs(n)[j].payload

(***************************************************************************)
(* C28.  In every successful result of GET /devices, whatever the snapshot *)
(* and the arguments: the device_id labels are pairwise distinct and in    *)
(* strictly ascending order, every device record has at least one metric,  *)
(* every metric key is an entry of the requested suffix list, and every    *)
(* device_id is a non-empty string.                                        *)
(***************************************************************************)
\* an entry of the sequence
IsEntryOf(x, seq) == \E k \in 1..Len(seq) : seq[k] = x

DistinctAscendingWithMetrics ==
    /\ \A a, b \in 1..Len(Devices) : a # b => Devices[a].device_id # Devices[b].device_id
    /\ \A a \in 1..Len(Devices) - 1 : StrLess(Devices[a].device_id, Devices[a + 1].device_id)
    /\ \A a \in 1..Len(Devices) :
          /\ Len(Devices[a].metrics) >= 1
          /\ \A k \in 1..Len(Devices[a].metrics) :
                /\ IsEntryOf(Devices[a].metrics[k].key, view.suffixes)
                /\ IsEntryOf(Devices[a].metrics[k].key, view.result.requested.suffixes)

TokenAlone(eid, token) ==
    /\ EndsWith(ObjectId(eid), token)
    /\ \A k \in 1..Len(ObjectId(eid)) - Len(token) : ObjectId(eid)[k] = "_"

C28_WitnessEmptyLabel ==
    /\ Grouped
    /\ Len(Devices) >= 2
    /\ Devices[1].device_id = <<>>
    /\ Len(Devices[1].metrics) = 1

====
